---- MODULE Spec2Model ----
(***************************************************************************)
(* State-machine model of the TravelPlanner component of                    *)
(* src/pages/index.tsx: the trip collection, the open trip, the drafts,     *)
(* the pending image reads, local storage and the share fragment.           *)
(*                                                                          *)
(* Strings are sequences of one-character strings, so that trim() and +     *)
(* are computed.  A handler is one action; its arguments are drawn from     *)
(* small sets.  The text of a form (the trip name, the day name, the name,  *)
(* address and notes of the add-location and edit forms) is an argument of  *)
(* the handler that submits the form: the user may retype it at any time    *)
(* before submitting, and no other handler reads it.  The images of the two *)
(* drafts, which the asynchronous file reads fill, are state.               *)
(***************************************************************************)
EXTENDS Integers, Sequences, FiniteSets

VARIABLES
  pc,               \* "mount" | "loaded" | "saved" | "ready" | "crashed"
  now,              \* the value Date.now() returns
  storage,          \* localStorage['travel-trips']: Null or <<collection>>
  hash,             \* window.location.hash
  pendingTrips,     \* the setTrips(migrated) queued by the mount effect
  trips,            \* useState trips
  currentTrip,      \* useState currentTrip: Null or <<trip>>
  activeDayId,      \* useState activeDayId: an id or NullId
  newLocation,      \* useState newLocation (the add-location draft): its images
  editingLocation,  \* useState editingLocation: Null or <<[location, dayId]>>
  importData,       \* useState importData: Null ('') or <<decoded payload>>
  showImportModal,  \* useState showImportModal
  shareUrl,         \* useState shareUrl: Null ('') or <<fragment>>
  reads,            \* FileReader reads in flight
  last,             \* the last handler call that had no effect, and how it ended
  calls,            \* the number of handler calls that changed the trips so far
  codec             \* a text on its way through utf8ToBase64 and base64ToUtf8

vars == <<pc, now, storage, hash, pendingTrips, trips, currentTrip, activeDayId,
          newLocation, editingLocation, importData, showImportModal, shareUrl,
          reads, last, calls, codec>>

-----------------------------------------------------------------------------
(* Bounds of the model *)

MaxCalls == 2
MaxImages == 1
MaxReads == 1
MaxTicks == 1

-----------------------------------------------------------------------------
(* JavaScript values *)

Null == <<>>
Undefined == <<"undefined">>
NullId == <<"null">>
Some(x) == <<x>>

\* a property holding an array / a property that is missing / a truthy value
\* that is no array
JArr(items) == [kind |-> "array", items |-> items]
Absent == [kind |-> "absent", items |-> <<>>]
Scalar == [kind |-> "scalar", items |-> <<>>]

\* what reading an element outside an array, or a JSON null, gives: any
\* property access on it throws
Hole == [id |-> Undefined, name |-> Undefined, address |-> Undefined,
         notes |-> Undefined, images |-> Undefined]

Digits == <<"0", "1", "2", "3", "4", "5", "6", "7", "8", "9">>

RECURSIVE NumToString(_)
NumToString(n) ==
  IF n < Len(Digits) THEN <<Digits[n + 1]>>
  ELSE NumToString(n \div Len(Digits)) \o <<Digits[(n % Len(Digits)) + 1]>>

\* String(undefined) is 'undefined'
StringOf(v) ==
  IF v = Undefined THEN <<"u", "n", "d", "e", "f", "i", "n", "e", "d">> ELSE v

RECURSIVE TrimLeft(_)
TrimLeft(s) == IF s # <<>> /\ Head(s) = " " THEN TrimLeft(Tail(s)) ELSE s

RECURSIVE TrimRight(_)
TrimRight(s) ==
  IF s # <<>> /\ s[Len(s)] = " " THEN TrimRight(SubSeq(s, 1, Len(s) - 1)) ELSE s

\* a trim that removes nothing
TrimNothing(s) == s

Trim(s) == TrimRight(TrimLeft(s))

\* truthiness of a string-or-undefined value
Truthy(v) == v # <<>> /\ v # Undefined

Day1 == <<"D", "a", "y", " ", "1">>
\* the literal ' (...)' appended by importSharedTrip; its two CJK characters
\* ("shared") are written s, h here
SharedSuffix == <<" ", "(", "s", "h", ")">>
\* the two alert texts, in English
LastDayAlert == "at least one day must remain"
InvalidTripAlert == "invalid trip data"
NoAlert == ""

-----------------------------------------------------------------------------
(* Array helpers *)

\* Array.prototype.filter is SelectSeq

RemoveAt(s, i) == [k \in 1..(Len(s) - 1) |-> IF k < i THEN s[k] ELSE s[k + 1]]

Range(s) == {s[i] : i \in 1..Len(s)}

\* Array.prototype.find: the first match
FindDay(days, dayId) ==
  IF \E i \in 1..Len(days) : days[i].id = dayId
    THEN Some(days[CHOOSE i \in 1..Len(days) :
                 /\ days[i].id = dayId
                 /\ \A j \in 1..(i - 1) : days[j].id # dayId])
    ELSE Null

\* trips.sort((a, b) => b.createdAt - a.createdAt): stable, newest first
RECURSIVE InsertDesc(_, _)
InsertDesc(sorted, t) ==
  IF sorted = <<>> THEN <<t>>
  ELSE IF Head(sorted).createdAt >= t.createdAt
         THEN <<Head(sorted)>> \o InsertDesc(Tail(sorted), t)
         ELSE <<t>> \o sorted

RECURSIVE SortDesc(_)
SortDesc(ts) ==
  IF ts = <<>> THEN <<>>
  ELSE InsertDesc(SortDesc(SubSeq(ts, 1, Len(ts) - 1)), ts[Len(ts)])

-----------------------------------------------------------------------------
(* The document: Location, Day, Trip (interfaces, lines 3-22).  A trip's     *)
(* days, and the locations property a legacy trip carries, are JArr(..) or   *)
(* Absent; a day's locations are a sequence.                                 *)

Location(id, name, address, notes, images) ==
  [id |-> id, name |-> name, address |-> address, notes |-> notes,
   images |-> images]

Day(id, name, locations) == [id |-> id, name |-> name, locations |-> locations]

Trip(id, name, days, createdAt) ==
  [id |-> id, name |-> name, days |-> JArr(days), createdAt |-> createdAt,
   locations |-> Absent]

DaysOf(t) == t.days.items

\* the images of { name: '', address: '', notes: '', images: [] }
EmptyDraft == [images |-> <<>>]

HasHole(locations) == \E i \in 1..Len(locations) : locations[i] = Hole

\* what Date.now() returns when the page is first loaded; stored trips were
\* made at earlier times
StartTime == 5

\* ids that name nothing
NoSuchId == <<"x">>

-----------------------------------------------------------------------------
(* Inputs *)

TripNameInputs == {<<>>, <<" ">>, <<"T">>}
DayNameInputs == {<<>>, <<" ">>, <<"D">>}

LocationInputs ==
  { [name |-> <<"L">>, address |-> <<"A">>, notes |-> <<"n">>],
    [name |-> <<" ">>, address |-> <<"A">>, notes |-> <<>>],
    [name |-> <<"L">>, address |-> <<>>, notes |-> <<>>] }

EditInputs ==
  { [name |-> <<"E">>, address |-> <<"A">>, notes |-> <<>>],
    [name |-> <<>>, address |-> <<"A">>, notes |-> <<>>] }

\* Math.random().toString() for the n calls made by one importSharedTrip:
\* the draws of one import all differ
RandomDraws(n) == { [k \in 1..n |-> <<"0", ".">> \o NumToString(k)] }

Directions == {-1, 1}

\* an image token names the draft the file was picked for: the add-location
\* form, or the edit form of the location with the given id
NewImage == <<"new">>
EditImage(locId) == <<"edit:">> \o locId

\* collections found in storage: nothing, or trips an earlier version saved
LegacyLocation == Location(NumToString(0), <<"L">>, <<"A">>, Undefined, <<>>)

LegacyTripA ==
  [id |-> NumToString(0), name |-> <<"T">>, createdAt |-> 0, days |-> Absent,
   locations |-> JArr(<<LegacyLocation>>)]

LegacyTripB ==
  [id |-> NumToString(1), name |-> <<"U">>, createdAt |-> 1, days |-> Absent,
   locations |-> Absent]

\* a trip this version saved in an earlier session: created at time 0, two
\* locations added at times 1 and 2 (the second with an image), a day added
\* at time 3
StoredTrip ==
  Trip(NumToString(0), <<"T">>,
       << Day(NumToString(0) \o <<"d">>, Day1,
              << Location(NumToString(1), <<"L">>, <<"A">>, <<"n">>, <<>>),
                 Location(NumToString(2), <<"M">>, <<"B">>, <<>>, <<NewImage>>) >>),
          Day(NumToString(3), <<"D">>, <<>>) >>,
       0)

InitialStorages == {Null, Some(<<LegacyTripA, LegacyTripB>>), Some(<<StoredTrip>>)}

\* decoded share payloads: { name, days: [{ name, locations: [{ name,
\* address, notes }] }] } and malformed variants of it
SharedLocation == [name |-> <<"L">>, address |-> <<"A">>, notes |-> Undefined]
SharedDay(locations) == [name |-> <<"D">>, locations |-> locations]
Payload(name, days) == [name |-> name, days |-> days]
NoPayload == Payload(Undefined, Absent)

PayloadInputs ==
  { Payload(<<"S">>, JArr(<<SharedDay(JArr(<<SharedLocation>>))>>)),
    Payload(<<"S">>, JArr(<<SharedDay(JArr(<<>>)), SharedDay(JArr(<<>>))>>)),
    Payload(<<"S">>, JArr(<<>>)),
    Payload(<<"S">>, Scalar),
    Payload(<<"S">>, JArr(<<SharedDay(Absent)>>)),
    Payload(<<"S">>, Absent),
    Payload(Undefined, JArr(<<SharedDay(JArr(<<>>))>>)) }

\* window.location.hash: '', a fragment of another kind, '#share=' followed
\* by something that does not decode, '#share=' followed by an encoded payload
NoHash == [tag |-> "none", data |-> NoPayload]
ForeignHash == [tag |-> "foreign", data |-> NoPayload]
UndecodableHash == [tag |-> "undecodable", data |-> NoPayload]
ShareHash(data) == [tag |-> "share", data |-> data]

HashInputs ==
  {NoHash, ForeignHash, UndecodableHash} \cup {ShareHash(p) : p \in PayloadInputs}

\* the first page load: a returning user without a share link, or a link
\* opened in a browser that holds no trips yet
InitialPages ==
  {[storage |-> st, hash |-> NoHash] : st \in InitialStorages}
    \cup {[storage |-> Null, hash |-> h] : h \in HashInputs}

-----------------------------------------------------------------------------
(* Rendering and the effects that follow a handler *)

Ended(op, result, alert) == [op |-> op, result |-> result, alert |-> alert]
\* a handler that ran to its end leaves no record
Ok(op) == Ended("", "ok", NoAlert)
Returned(op) == Ended(op, "return", NoAlert)

\* the trip list is rendered when no trip is open, and sorts trips in place
RenderSort(ts, cur) == IF cur = Null /\ Len(ts) # 0 THEN SortDesc(ts) ELSE ts

\* rendering the active day's cards reads loc.id of every location
RenderThrows(cur, active) ==
  /\ cur # Null
  /\ LET d == FindDay(DaysOf(cur[1]), active)
     IN  d # Null /\ HasHole(d[1].locations)

\* localStorage.setItem('travel-trips', JSON.stringify(trips))
SaveEffectValue(ts) == Some(ts)

\* The render after a handler set the state to (nt, nc, na), and the save
\* effect when the handler called setTrips.  A render that throws unmounts
\* the component: no effect runs.
Settle(nt, nc, na, tripsSet) ==
  /\ currentTrip' = nc
  /\ activeDayId' = na
  /\ IF RenderThrows(nc, na)
       THEN /\ pc' = "crashed"
            /\ trips' = nt
            /\ UNCHANGED storage
       ELSE /\ pc' = "ready"
            /\ trips' = RenderSort(nt, nc)
            /\ storage' = IF tripsSet THEN SaveEffectValue(trips') ELSE storage

\* The three modals cover the page while they are open: the handlers of the
\* page run only when none is.  shareUrl is read by the share modal alone and
\* importData by the import modal alone; each is kept while its modal is
\* open and is Null while it is closed.
EditModalOpen == editingLocation # Null
ShareModalOpen == shareUrl # Null
PageReady ==
  pc = "ready" /\ ~EditModalOpen /\ ~ShareModalOpen /\ ~showImportModal

\* a handler that finds no open trip (or no draft) and returns, or that throws
\* before any setState
Nothing == UNCHANGED vars

\* a handler that rejects its input: it returns or alerts before any setState
NoEffect(ended) ==
  /\ last' = ended
  /\ UNCHANGED <<pc, now, storage, hash, pendingTrips, trips, currentTrip,
                 activeDayId, newLocation, editingLocation, importData,
                 showImportModal, shareUrl, reads, calls, codec>>

\* a handler call that changes the trips counts against the bound MaxCalls
Counted == calls < MaxCalls /\ calls' = calls + 1

\* a collection that is not told about the updated trip
MapTripsStale(ts, updated) == ts

\* trips.map(t => t.id === updated.id ? updated : t)
MapTrips(ts, updated) ==
  [i \in 1..Len(ts) |-> IF ts[i].id = updated.id THEN updated ELSE ts[i]]

\* setCurrentTrip(updated); setTrips(trips.map(...))
UpdateOpenTrip(updated, na) ==
  Settle(MapTrips(trips, updated), Some(updated), na, TRUE)

-----------------------------------------------------------------------------
(* Page load: the two mount effects, then the render of the loaded trips *)

\* a migration that drops the locations of an old trip
MigrateTripEmpty(trip, ts) ==
  IF trip.days.kind = "absent"
    THEN [trip EXCEPT !.days = JArr(<<Day(NumToString(ts), Day1, <<>>)>>)]
    ELSE trip

\* a migration that stamps the first day of every trip it sees
MigrateTripRestamping(trip, ts) ==
  IF trip.days.kind = "absent"
    THEN [trip EXCEPT !.days =
            JArr(<<Day(NumToString(ts), Day1,
                       IF trip.locations.kind = "array"
                         THEN trip.locations.items ELSE <<>>)>>)]
    ELSE IF trip.days.kind = "array" /\ trip.days.items # <<>>
      THEN [trip EXCEPT !.days.items[1].id = NumToString(ts)]
      ELSE trip

MigrateTrip(trip, ts) ==
  IF trip.days.kind = "absent"
    THEN [trip EXCEPT !.days =
            JArr(<<Day(NumToString(ts), Day1,
                       IF trip.locations.kind = "array"
                         THEN trip.locations.items ELSE <<>>)>>)]
    ELSE trip

Migrate(parsed, ts) == [i \in 1..Len(parsed) |-> MigrateTrip(parsed[i], ts)]

\* a decoder that offers whatever follows '#share='
DecodeShareHashUntested(h) == IF h.tag = "share" THEN Some(h.data) ELSE Null

\* JSON.parse(base64ToUtf8(decodeURIComponent(encoded))) and the test
\* decoded.name && decoded.days: the payload to offer, or Null
DecodeShareHash(h) ==
  IF h.tag = "share" /\ Truthy(h.data.name) /\ h.data.days.kind # "absent"
    THEN Some(h.data) ELSE Null

LoadEffect ==
  /\ pc = "mount"
  /\ pc' = "loaded"
  /\ pendingTrips' = IF storage = Null THEN Null
                     ELSE Some(Migrate(storage[1], now))
  /\ LET decoded == DecodeShareHash(hash)
     IN  /\ importData' = decoded
         /\ showImportModal' = (decoded # Null)
  /\ last' = Ok("load")
  /\ UNCHANGED <<now, storage, hash, trips, currentTrip, activeDayId,
                 newLocation, editingLocation, shareUrl, reads, calls, codec>>

\* the save effect of the first render, which still sees trips = []
SaveEffect ==
  /\ pc = "loaded"
  /\ pc' = "saved"
  /\ storage' = SaveEffectValue(trips)
  /\ last' = Ok("save")
  /\ UNCHANGED <<now, hash, pendingTrips, trips, currentTrip, activeDayId,
                 newLocation, editingLocation, importData, showImportModal,
                 shareUrl, reads, calls, codec>>

Rerender ==
  /\ pc = "saved"
  /\ IF pendingTrips = Null
       THEN /\ pc' = "ready"
            /\ UNCHANGED <<trips, currentTrip, activeDayId, storage>>
       ELSE Settle(pendingTrips[1], currentTrip, activeDayId, TRUE)
  /\ pendingTrips' = Null
  /\ last' = Ok("render")
  /\ UNCHANGED <<now, hash, newLocation, editingLocation, importData,
                 showImportModal, shareUrl, reads, calls, codec>>

\* a new page load: React state is gone, storage is kept
PageLoad(h) ==
  /\ pc' = "mount"
  /\ hash' = h
  /\ pendingTrips' = Null
  /\ trips' = <<>>
  /\ currentTrip' = Null
  /\ activeDayId' = NullId
  /\ newLocation' = EmptyDraft
  /\ editingLocation' = Null
  /\ importData' = Null
  /\ showImportModal' = FALSE
  /\ shareUrl' = Null
  /\ reads' = <<>>
  /\ last' = Ok("navigate")
  /\ UNCHANGED <<now, storage, calls, codec>>

Reload ==
  /\ pc \in {"ready", "crashed"}
  /\ PageLoad(hash)

Tick ==
  /\ now < StartTime + MaxTicks
  /\ now' = now + 1
  /\ UNCHANGED <<pc, storage, hash, pendingTrips, trips, currentTrip,
                 activeDayId, newLocation, editingLocation, importData,
                 showImportModal, shareUrl, reads, last, calls, codec>>

-----------------------------------------------------------------------------
(* Trips and days *)

\* createTrip adding the trip without opening it
createTripUnopened(newTripName) ==
  /\ PageReady
  /\ IF Trim(newTripName) = <<>>
       THEN NoEffect(Returned("createTrip"))
       ELSE /\ LET trip == Trip(NumToString(now), newTripName,
                                <<Day(NumToString(now) \o <<"d">>, Day1, <<>>)>>,
                                now)
               IN  Settle(Append(trips, trip), currentTrip, activeDayId, TRUE)
            /\ last' = Ok("createTrip")
            /\ Counted
            /\ UNCHANGED <<now, hash, pendingTrips, newLocation, editingLocation,
                           importData, showImportModal, shareUrl, reads, codec>>

createTrip(newTripName) ==
  /\ PageReady
  /\ IF Trim(newTripName) = <<>>
       THEN NoEffect(Returned("createTrip"))
       ELSE /\ LET trip == Trip(NumToString(now), newTripName,
                                <<Day(NumToString(now) \o <<"d">>, Day1, <<>>)>>,
                                now)
               IN  Settle(Append(trips, trip), Some(trip), DaysOf(trip)[1].id, TRUE)
            /\ last' = Ok("createTrip")
            /\ Counted
            /\ UNCHANGED <<now, hash, pendingTrips, newLocation, editingLocation,
                           importData, showImportModal, shareUrl, reads, codec>>

deleteTrip(id) ==
  /\ PageReady
  /\ LET KeepTrip(t) == t.id # id
         isOpen == currentTrip # Null /\ currentTrip[1].id = id
     IN  Settle(SelectSeq(trips, KeepTrip),
                IF isOpen THEN Null ELSE currentTrip,
                IF isOpen THEN NullId ELSE activeDayId, TRUE)
  /\ last' = Ok("deleteTrip")
  /\ Counted
  /\ UNCHANGED <<now, hash, pendingTrips, newLocation, editingLocation,
                 importData, showImportModal, shareUrl, reads, codec>>

\* the trip card's onClick
OpenTrip(trip) ==
  /\ PageReady
  /\ Settle(trips, Some(trip),
            IF DaysOf(trip) # <<>> THEN DaysOf(trip)[1].id ELSE NullId, FALSE)
  /\ last' = Ok("openTrip")
  /\ UNCHANGED <<now, hash, pendingTrips, newLocation, editingLocation,
                 importData, showImportModal, shareUrl, reads, calls, codec>>

\* the back button's onClick
CloseTrip ==
  /\ PageReady
  /\ currentTrip # Null
  /\ Settle(trips, Null, NullId, FALSE)
  /\ last' = Ok("closeTrip")
  /\ UNCHANGED <<now, hash, pendingTrips, newLocation, editingLocation,
                 importData, showImportModal, shareUrl, reads, calls, codec>>

\* a day tab's onClick
SetActiveDay(dayId) ==
  /\ PageReady
  /\ currentTrip # Null
  /\ dayId # activeDayId
  /\ Settle(trips, currentTrip, dayId, FALSE)
  /\ last' = Ok("setActiveDay")
  /\ UNCHANGED <<now, hash, pendingTrips, newLocation, editingLocation,
                 importData, showImportModal, shareUrl, reads, calls, codec>>

addDay(newDayName) ==
  /\ PageReady
  /\ IF currentTrip = Null \/ Trim(newDayName) = <<>>
       THEN NoEffect(Returned("addDay"))
       ELSE /\ LET newDay == Day(NumToString(now), newDayName, <<>>)
                   updated == [currentTrip[1] EXCEPT
                                 !.days = JArr(Append(DaysOf(currentTrip[1]), newDay))]
               IN  UpdateOpenTrip(updated, newDay.id)
            /\ last' = Ok("addDay")
            /\ Counted
            /\ UNCHANGED <<now, hash, pendingTrips, newLocation, editingLocation,
                           importData, showImportModal, shareUrl, reads, codec>>

\* deleteDay refusing only a trip without days
deleteDayUnguarded(dayId) ==
  /\ PageReady
  /\ IF currentTrip = Null
       THEN Nothing
       ELSE IF Len(DaysOf(currentTrip[1])) < 1
         THEN NoEffect(Ended("deleteDay", "return", LastDayAlert))
         ELSE /\ LET KeepDay(d) == d.id # dayId
                     days == SelectSeq(DaysOf(currentTrip[1]), KeepDay)
                     updated == [currentTrip[1] EXCEPT !.days = JArr(days)]
                 IN  UpdateOpenTrip(updated,
                       IF activeDayId = dayId
                         THEN (IF days # <<>> THEN days[1].id ELSE NullId)
                         ELSE activeDayId)
              /\ last' = Ok("deleteDay")
              /\ Counted
              /\ UNCHANGED <<now, hash, pendingTrips, newLocation, editingLocation,
                             importData, showImportModal, shareUrl, reads, codec>>

deleteDay(dayId) ==
  /\ PageReady
  /\ IF currentTrip = Null
       THEN Nothing
       ELSE IF Len(DaysOf(currentTrip[1])) <= 1
         THEN NoEffect(Ended("deleteDay", "return", LastDayAlert))
         ELSE /\ LET KeepDay(d) == d.id # dayId
                     days == SelectSeq(DaysOf(currentTrip[1]), KeepDay)
                     updated == [currentTrip[1] EXCEPT !.days = JArr(days)]
                 IN  UpdateOpenTrip(updated,
                       IF activeDayId = dayId
                         THEN (IF days # <<>> THEN days[1].id ELSE NullId)
                         ELSE activeDayId)
              /\ last' = Ok("deleteDay")
              /\ Counted
              /\ UNCHANGED <<now, hash, pendingTrips, newLocation, editingLocation,
                             importData, showImportModal, shareUrl, reads, codec>>

DayIds(cur) == IF cur = Null THEN {} ELSE {d.id : d \in Range(DaysOf(cur[1]))}

-----------------------------------------------------------------------------
(* Locations *)

handleNewImageUpload ==
  /\ PageReady
  /\ Len(reads) < MaxReads
  /\ Len(newLocation.images) < MaxImages
  /\ reads' = Append(reads, [target |-> "new", image |-> NewImage])
  /\ last' = Ok("handleNewImageUpload")
  /\ UNCHANGED <<pc, now, storage, hash, pendingTrips, trips, currentTrip,
                 activeDayId, newLocation, editingLocation, importData,
                 showImportModal, shareUrl, calls, codec>>

\* reader.onloadend of a read started by handleNewImageUpload
NewImageLoaded(i) ==
  /\ pc = "ready"
  /\ reads[i].target = "new"
  /\ reads' = RemoveAt(reads, i)
  /\ newLocation' = [newLocation EXCEPT !.images = Append(@, reads[i].image)]
  /\ last' = Ok("newImageLoaded")
  /\ UNCHANGED <<pc, now, storage, hash, pendingTrips, trips, currentTrip,
                 activeDayId, editingLocation, importData, showImportModal,
                 shareUrl, calls, codec>>

removeNewImage(index) ==
  /\ PageReady
  /\ newLocation' = [newLocation EXCEPT !.images = RemoveAt(@, index)]
  /\ last' = Ok("removeNewImage")
  /\ UNCHANGED <<pc, now, storage, hash, pendingTrips, trips, currentTrip,
                 activeDayId, editingLocation, importData, showImportModal,
                 shareUrl, reads, calls, codec>>

\* currentTrip.days.map(day => day.id === dayId ? {...day, locations: f(day)} : day)
\* with newLocations[day] the value of f(day) for each day of the trip
MapDays(trip, dayId, newLocations) ==
  [trip EXCEPT !.days = JArr([i \in 1..Len(DaysOf(trip)) |->
     IF DaysOf(trip)[i].id = dayId
       THEN [DaysOf(trip)[i] EXCEPT !.locations = newLocations[DaysOf(trip)[i]]]
       ELSE DaysOf(trip)[i]])]

\* the days of the open trip
OpenDays == Range(DaysOf(currentTrip[1]))

addLocation(fields) ==
  /\ PageReady
  /\ IF \/ Trim(fields.name) = <<>>
        \/ Trim(fields.address) = <<>>
        \/ currentTrip = Null
        \/ activeDayId = NullId
       THEN NoEffect(Returned("addLocation"))
       ELSE /\ LET location == Location(NumToString(now), fields.name,
                                        fields.address, fields.notes,
                                        newLocation.images)
                   Appended == [day \in OpenDays |-> Append(day.locations, location)]
               IN  UpdateOpenTrip(MapDays(currentTrip[1], activeDayId, Appended),
                                  activeDayId)
            /\ newLocation' = EmptyDraft
            /\ last' = Ok("addLocation")
            /\ Counted
            /\ UNCHANGED <<now, hash, pendingTrips, editingLocation, importData,
                           showImportModal, shareUrl, reads, codec>>

removeLocation(dayId, locId) ==
  /\ PageReady
  /\ IF currentTrip = Null
       THEN Nothing
       ELSE IF \E d \in Range(DaysOf(currentTrip[1])) :
                 d.id = dayId /\ HasHole(d.locations)
         THEN Nothing
         ELSE /\ LET KeepLocation(l) == l.id # locId
                     Filtered == [day \in OpenDays |->
                                    SelectSeq(day.locations, KeepLocation)]
                 IN  UpdateOpenTrip(MapDays(currentTrip[1], dayId, Filtered),
                                    activeDayId)
              /\ last' = Ok("removeLocation")
              /\ Counted
              /\ UNCHANGED <<now, hash, pendingTrips, newLocation, editingLocation,
                             importData, showImportModal, shareUrl, reads, codec>>

\* const locations = [...day.locations];
\* [locations[index], locations[newIndex]] = [locations[newIndex], locations[index]]
\* with 0-based index; reading outside the array gives undefined, writing at
\* length extends the array, writing at -1 sets a property that is no element
SwapLocations(locations, index, newIndex) ==
  LET len == Len(locations)
      At(k) == IF k \in 0..(len - 1) THEN locations[k + 1] ELSE Hole
      newLen == IF index >= len THEN index + 1 ELSE len
  IN  [k \in 1..newLen |->
         IF k - 1 = index THEN At(newIndex)
         ELSE IF k - 1 = newIndex THEN At(index)
         ELSE At(k - 1)]

\* moveLocation checking only the upper end of the day
moveLocationUpperOnly(dayId, index, direction) ==
  /\ PageReady
  /\ LET day == IF currentTrip = Null THEN Null
                ELSE FindDay(DaysOf(currentTrip[1]), dayId)
         newIndex == index + direction
     IN  IF day = Null
           THEN Nothing
           ELSE IF newIndex >= Len(day[1].locations)
             THEN NoEffect(Returned("moveLocation"))
             ELSE /\ LET locations == SwapLocations(day[1].locations, index, newIndex)
                         Moved == [d \in OpenDays |-> locations]
                     IN  UpdateOpenTrip(MapDays(currentTrip[1], dayId, Moved),
                                        activeDayId)
                  /\ last' = Ok("moveLocation")
                  /\ Counted
                  /\ UNCHANGED <<now, hash, pendingTrips, newLocation,
                                 editingLocation, importData, showImportModal,
                                 shareUrl, reads, codec>>

moveLocation(dayId, index, direction) ==
  /\ PageReady
  /\ LET day == IF currentTrip = Null THEN Null
                ELSE FindDay(DaysOf(currentTrip[1]), dayId)
         newIndex == index + direction
     IN  IF day = Null
           THEN Nothing
           ELSE IF newIndex < 0 \/ newIndex >= Len(day[1].locations)
             THEN NoEffect(Returned("moveLocation"))
             ELSE /\ LET locations == SwapLocations(day[1].locations, index, newIndex)
                         Moved == [d \in OpenDays |-> locations]
                     IN  UpdateOpenTrip(MapDays(currentTrip[1], dayId, Moved),
                                        activeDayId)
                  /\ last' = Ok("moveLocation")
                  /\ Counted
                  /\ UNCHANGED <<now, hash, pendingTrips, newLocation,
                                 editingLocation, importData, showImportModal,
                                 shareUrl, reads, codec>>

openEditModal(location, dayId) ==
  /\ PageReady
  /\ editingLocation' = Some([location |-> location, dayId |-> dayId])
  /\ editingLocation' # editingLocation
  /\ last' = Ok("openEditModal")
  /\ UNCHANGED <<pc, now, storage, hash, pendingTrips, trips, currentTrip,
                 activeDayId, newLocation, importData, showImportModal,
                 shareUrl, reads, calls, codec>>

handleEditImageUpload ==
  /\ pc = "ready"
  /\ IF editingLocation = Null
       THEN Nothing
       ELSE /\ Len(reads) < MaxReads
            /\ Len(editingLocation[1].location.images) < MaxImages
            /\ reads' = Append(reads, [target |-> "edit",
                          image |-> EditImage(editingLocation[1].location.id)])
            /\ last' = Ok("handleEditImageUpload")
            /\ UNCHANGED <<pc, now, storage, hash, pendingTrips, trips,
                           currentTrip, activeDayId, newLocation,
                           editingLocation, importData, showImportModal,
                           shareUrl, calls, codec>>

\* reader.onloadend of a read started by handleEditImageUpload
EditImageLoaded(i) ==
  /\ pc = "ready"
  /\ reads[i].target = "edit"
  /\ reads' = RemoveAt(reads, i)
  /\ editingLocation' =
       IF editingLocation = Null THEN Null
       ELSE Some([editingLocation[1] EXCEPT
                    !.location.images = Append(@, reads[i].image)])
  /\ last' = Ok("editImageLoaded")
  /\ UNCHANGED <<pc, now, storage, hash, pendingTrips, trips, currentTrip,
                 activeDayId, newLocation, importData, showImportModal,
                 shareUrl, calls, codec>>

removeEditImage(index) ==
  /\ pc = "ready"
  /\ editingLocation # Null
  /\ editingLocation' = Some([editingLocation[1] EXCEPT
                                !.location.images = RemoveAt(@, index)])
  /\ last' = Ok("removeEditImage")
  /\ UNCHANGED <<pc, now, storage, hash, pendingTrips, trips, currentTrip,
                 activeDayId, newLocation, importData, showImportModal,
                 shareUrl, reads, calls, codec>>

\* editingLocation.location with the text of the edit form
Edited(location, fields) ==
  [location EXCEPT !.name = fields.name, !.address = fields.address,
                   !.notes = fields.notes]

saveLocationEdit(fields) ==
  /\ pc = "ready"
  /\ IF currentTrip = Null \/ editingLocation = Null
       THEN Nothing
       ELSE IF \E d \in Range(DaysOf(currentTrip[1])) :
                 d.id = editingLocation[1].dayId /\ HasHole(d.locations)
         THEN Nothing
         ELSE /\ LET edited == Edited(editingLocation[1].location, fields)
                     Replaced ==
                       [day \in OpenDays |->
                          [i \in 1..Len(day.locations) |->
                             IF day.locations[i].id = edited.id
                               THEN edited ELSE day.locations[i]]]
                 IN  UpdateOpenTrip(
                       MapDays(currentTrip[1], editingLocation[1].dayId, Replaced),
                       activeDayId)
              /\ editingLocation' = Null
              /\ last' = Ok("saveLocationEdit")
              /\ Counted
              /\ UNCHANGED <<now, hash, pendingTrips, newLocation, importData,
                             showImportModal, shareUrl, reads, codec>>

\* the edit modal's cancel button
CancelEdit ==
  /\ pc = "ready"
  /\ editingLocation # Null
  /\ editingLocation' = Null
  /\ last' = Ok("cancelEdit")
  /\ UNCHANGED <<pc, now, storage, hash, pendingTrips, trips, currentTrip,
                 activeDayId, newLocation, importData, showImportModal,
                 shareUrl, reads, calls, codec>>

\* the locations that can be handed to openEditModal, with their day
EditTargets(cur) ==
  IF cur = Null THEN {}
  ELSE UNION {{[location |-> l, dayId |-> d.id] : l \in Range(d.locations) \ {Hole}} :
                d \in {e \in Range(DaysOf(cur[1])) : e.id = activeDayId}}

\* the length of the longest day of the open trip
MaxLocations(cur) ==
  IF cur = Null \/ DaysOf(cur[1]) = <<>> THEN 0
  ELSE LET lens == {Len(d.locations) : d \in Range(DaysOf(cur[1]))}
       IN  CHOOSE n \in lens : \A m \in lens : m <= n

LocationIds(cur) ==
  IF cur = Null THEN {}
  ELSE UNION {{l.id : l \in Range(d.locations)} : d \in Range(DaysOf(cur[1]))}

-----------------------------------------------------------------------------
(* Sharing and importing *)

\* a share payload that leaves the notes out
ShareDataWithoutNotes(trip) ==
  Payload(trip.name,
          JArr([i \in 1..Len(DaysOf(trip)) |->
                 [name |-> DaysOf(trip)[i].name,
                  locations |-> JArr([j \in 1..Len(DaysOf(trip)[i].locations) |->
                     [name |-> DaysOf(trip)[i].locations[j].name,
                      address |-> DaysOf(trip)[i].locations[j].address,
                      notes |-> Undefined]])]]))

\* a share payload that carries the ids and the images along
ShareDataWithIds(trip) ==
  Payload(trip.name,
          JArr([i \in 1..Len(DaysOf(trip)) |->
                 [id |-> DaysOf(trip)[i].id,
                  name |-> DaysOf(trip)[i].name,
                  locations |-> JArr([j \in 1..Len(DaysOf(trip)[i].locations) |->
                     [id |-> DaysOf(trip)[i].locations[j].id,
                      name |-> DaysOf(trip)[i].locations[j].name,
                      address |-> DaysOf(trip)[i].locations[j].address,
                      notes |-> DaysOf(trip)[i].locations[j].notes,
                      images |-> DaysOf(trip)[i].locations[j].images]])]]))

\* the data object of generateShareUrl; JSON.stringify leaves out a notes
\* property that is undefined
ShareData(trip) ==
  Payload(trip.name,
          JArr([i \in 1..Len(DaysOf(trip)) |->
                 [name |-> DaysOf(trip)[i].name,
                  locations |-> JArr([j \in 1..Len(DaysOf(trip)[i].locations) |->
                     [name |-> DaysOf(trip)[i].locations[j].name,
                      address |-> DaysOf(trip)[i].locations[j].address,
                      notes |-> DaysOf(trip)[i].locations[j].notes]])]]))

\* '#share=' + encodeURIComponent(utf8ToBase64(JSON.stringify(data)))
ShareFragment(data) == ShareHash(data)

generateShareUrl ==
  /\ PageReady
  /\ IF currentTrip = Null
       THEN Nothing
       ELSE IF \E d \in Range(DaysOf(currentTrip[1])) : HasHole(d.locations)
         THEN Nothing
         ELSE /\ shareUrl' = Some(ShareFragment(ShareData(currentTrip[1])))
              /\ shareUrl' # shareUrl
              /\ last' = Ok("generateShareUrl")
              /\ UNCHANGED <<pc, now, storage, hash, pendingTrips, trips,
                             currentTrip, activeDayId, newLocation,
                             editingLocation, importData, showImportModal, reads, calls, codec>>

\* the share link is copied and opened: a page load with that fragment
FollowShareLink ==
  /\ pc = "ready"
  /\ ShareModalOpen
  /\ PageLoad(shareUrl[1])

\* the share modal's close button
CloseShareModal ==
  /\ pc = "ready"
  /\ ShareModalOpen
  /\ shareUrl' = Null
  /\ last' = Ok("closeShareModal")
  /\ UNCHANGED <<pc, now, storage, hash, pendingTrips, trips, currentTrip,
                 activeDayId, newLocation, editingLocation, importData,
                 showImportModal, reads, calls, codec>>

\* an import that accepts any payload
ImportNeverThrows(data) == data = Null

\* JSON.parse(importData) or one of the two map calls throws
ImportThrows(data) ==
  \/ data = Null
  \/ data[1].days.kind # "array"
  \/ \E d \in Range(data[1].days.items) : d.locations.kind # "array"

\* the number of Math.random() calls made before day i is built
RandomsBefore(days, i) ==
  LET Sum[k \in 0..Len(days)] ==
        IF k = 0 THEN 0 ELSE Sum[k - 1] + 1 + Len(days[k].locations.items)
  IN  Sum[i - 1]

\* the trip built by importSharedTrip; random[k] is what the k-th call of
\* Math.random().toString() returns
ImportedTrip(data, ts, random) ==
  LET days == data.days.items
      ImportedLocation(l, r) ==
        Location(NumToString(ts) \o r, l.name, l.address,
                 IF Truthy(l.notes) THEN l.notes ELSE <<>>, <<>>)
      ImportedDay(i) ==
        Day(NumToString(ts) \o random[RandomsBefore(days, i) + 1], days[i].name,
            [j \in 1..Len(days[i].locations.items) |->
               ImportedLocation(days[i].locations.items[j],
                                random[RandomsBefore(days, i) + 1 + j])])
  IN  Trip(NumToString(ts), StringOf(data.name) \o SharedSuffix,
           [i \in 1..Len(days) |-> ImportedDay(i)], ts)

RandomCalls(data) == RandomsBefore(data.days.items, Len(data.days.items) + 1)

importSharedTrip ==
  /\ pc = "ready"
  /\ showImportModal
  /\ IF ImportThrows(importData)
       THEN NoEffect(Ended("importSharedTrip", "catch", InvalidTripAlert))
       ELSE /\ \E random \in RandomDraws(RandomCalls(importData[1])) :
                 LET trip == ImportedTrip(importData[1], now, random)
                 IN  Settle(Append(trips, trip), Some(trip),
                            IF DaysOf(trip) # <<>> THEN DaysOf(trip)[1].id ELSE NullId,
                            TRUE)
            /\ showImportModal' = FALSE
            /\ importData' = Null
            /\ hash' = NoHash
            /\ last' = Ok("importSharedTrip")
            /\ Counted
            /\ UNCHANGED <<now, pendingTrips, newLocation, editingLocation,
                           shareUrl, reads, codec>>

\* the import modal's cancel button
CancelImport ==
  /\ pc = "ready"
  /\ showImportModal
  /\ showImportModal' = FALSE
  /\ importData' = Null
  /\ hash' = NoHash
  /\ last' = Ok("cancelImport")
  /\ UNCHANGED <<pc, now, storage, pendingTrips, trips, currentTrip,
                 activeDayId, newLocation, editingLocation, shareUrl, reads, calls, codec>>

-----------------------------------------------------------------------------
(* The codec of the share link (lines 24-35, 230, 76-77).  A JavaScript      *)
(* string is a sequence of UTF-16 code units, a byte array a sequence of     *)
(* numbers below 256, a base64 or percent-encoded text a sequence of         *)
(* one-character strings.                                                    *)

MaxTextLen == 3

ReplacementChar == 65533
ByteOrderMark == 65279

\* code units of a one-byte, a two-byte and two three-byte characters, the
\* byte order mark, and the two surrogates of a four-byte character
CodeUnitInputs == {123, 233, 8364, ByteOrderMark, 55357, 56832}

IsHighSurrogate(u) == u \in 55296..56319
IsLowSurrogate(u) == u \in 56320..57343

\* the scalar values TextEncoder reads from a string: a surrogate pair is one
\* value, a surrogate without its partner is replaced by U+FFFD
RECURSIVE CodePoints(_)
CodePoints(str) ==
  IF str = <<>> THEN <<>>
  ELSE IF Len(str) >= 2 /\ IsHighSurrogate(str[1]) /\ IsLowSurrogate(str[2])
    THEN <<65536 + (str[1] - 55296) * 1024 + (str[2] - 56320)>>
           \o CodePoints(SubSeq(str, 3, Len(str)))
  ELSE IF IsHighSurrogate(str[1]) \/ IsLowSurrogate(str[1])
    THEN <<ReplacementChar>> \o CodePoints(Tail(str))
  ELSE <<str[1]>> \o CodePoints(Tail(str))

Utf8Bytes(cp) ==
  IF cp < 128 THEN <<cp>>
  ELSE IF cp < 2048 THEN <<192 + (cp \div 64), 128 + (cp % 64)>>
  ELSE IF cp < 65536
    THEN <<224 + (cp \div 4096), 128 + ((cp \div 64) % 64), 128 + (cp % 64)>>
  ELSE <<240 + (cp \div 262144), 128 + ((cp \div 4096) % 64),
         128 + ((cp \div 64) % 64), 128 + (cp % 64)>>

RECURSIVE EncodeCodePoints(_)
EncodeCodePoints(cps) ==
  IF cps = <<>> THEN <<>>
  ELSE Utf8Bytes(Head(cps)) \o EncodeCodePoints(Tail(cps))

\* new TextEncoder().encode(str)
TextEncode(str) == EncodeCodePoints(CodePoints(str))


Base64Alphabet ==
  << "A", "B", "C", "D", "E", "F", "G", "H", "I", "J", "K", "L", "M",
     "N", "O", "P", "Q", "R", "S", "T", "U", "V", "W", "X", "Y", "Z",
     "a", "b", "c", "d", "e", "f", "g", "h", "i", "j", "k", "l", "m",
     "n", "o", "p", "q", "r", "s", "t", "u", "v", "w", "x", "y", "z",
     "0", "1", "2", "3", "4", "5", "6", "7", "8", "9", "+", "/" >>

Base64Char(sextet) == Base64Alphabet[sextet + 1]
Sextet(char) == CHOOSE n \in 0..63 : Base64Alphabet[n + 1] = char

\* btoa(binString); the characters of binString are the bytes
\* (String.fromCharCode(byte)), so it is written as the byte sequence
RECURSIVE btoa(_)
btoa(bin) ==
  IF bin = <<>> THEN <<>>
  ELSE IF Len(bin) = 1
    THEN << Base64Char(bin[1] \div 4), Base64Char((bin[1] % 4) * 16), "=", "=" >>
  ELSE IF Len(bin) = 2
    THEN << Base64Char(bin[1] \div 4),
            Base64Char((bin[1] % 4) * 16 + (bin[2] \div 16)),
            Base64Char((bin[2] % 16) * 4), "=" >>
  ELSE << Base64Char(bin[1] \div 4),
          Base64Char((bin[1] % 4) * 16 + (bin[2] \div 16)),
          Base64Char((bin[2] % 16) * 4 + (bin[3] \div 64)),
          Base64Char(bin[3] % 64) >> \o btoa(SubSeq(bin, 4, Len(bin)))

\* the bytes of a base64 text without its padding
RECURSIVE DecodeSextets(_)
DecodeSextets(chars) ==
  IF Len(chars) < 2 THEN <<>>
  ELSE LET a == Sextet(chars[1])
           b == Sextet(chars[2])
       IN  IF Len(chars) = 2 THEN << a * 4 + (b \div 16) >>
           ELSE LET c == Sextet(chars[3])
                IN  IF Len(chars) = 3
                      THEN << a * 4 + (b \div 16), (b % 16) * 16 + (c \div 4) >>
                      ELSE << a * 4 + (b \div 16), (b % 16) * 16 + (c \div 4),
                              (c % 4) * 64 + Sextet(chars[4]) >>
                             \o DecodeSextets(SubSeq(chars, 5, Len(chars)))

IsNoPadding(char) == char # "="

\* atob(base64), for the texts btoa produces
atob(base64) == DecodeSextets(SelectSeq(base64, IsNoPadding))

\* encodeURIComponent(base64): of the base64 characters only + / = are
\* escaped
RECURSIVE encodeURIComponent(_)
encodeURIComponent(chars) ==
  IF chars = <<>> THEN <<>>
  ELSE (IF Head(chars) = "+" THEN <<"%", "2", "B">>
        ELSE IF Head(chars) = "/" THEN <<"%", "2", "F">>
        ELSE IF Head(chars) = "=" THEN <<"%", "3", "D">>
        ELSE <<Head(chars)>>) \o encodeURIComponent(Tail(chars))

\* decodeURIComponent(encoded), for the escapes encodeURIComponent produces
\* from a base64 text
RECURSIVE decodeURIComponent(_)
decodeURIComponent(chars) ==
  IF chars = <<>> THEN <<>>
  ELSE IF Head(chars) = "%" /\ Len(chars) >= 3
    THEN (IF SubSeq(chars, 2, 3) = <<"2", "B">> THEN <<"+">>
          ELSE IF SubSeq(chars, 2, 3) = <<"2", "F">> THEN <<"/">>
          ELSE IF SubSeq(chars, 2, 3) = <<"3", "D">> THEN <<"=">>
          ELSE SubSeq(chars, 1, 3))
         \o decodeURIComponent(SubSeq(chars, 4, Len(chars)))
  ELSE <<Head(chars)>> \o decodeURIComponent(Tail(chars))

IsContinuation(bytes, k) == Len(bytes) >= k /\ bytes[k] \in 128..191

\* the scalar values of a UTF-8 byte sequence; a byte that starts no
\* complete character gives U+FFFD
RECURSIVE DecodeBytes(_)
DecodeBytes(bytes) ==
  IF bytes = <<>> THEN <<>>
  ELSE LET b == bytes[1]
       IN  IF b < 128 THEN <<b>> \o DecodeBytes(Tail(bytes))
           ELSE IF b \in 192..223 /\ IsContinuation(bytes, 2)
             THEN << (b - 192) * 64 + (bytes[2] - 128) >>
                    \o DecodeBytes(SubSeq(bytes, 3, Len(bytes)))
           ELSE IF /\ b \in 224..239
                   /\ IsContinuation(bytes, 2) /\ IsContinuation(bytes, 3)
             THEN << (b - 224) * 4096 + (bytes[2] - 128) * 64 + (bytes[3] - 128) >>
                    \o DecodeBytes(SubSeq(bytes, 4, Len(bytes)))
           ELSE IF /\ b \in 240..247
                   /\ IsContinuation(bytes, 2) /\ IsContinuation(bytes, 3)
                   /\ IsContinuation(bytes, 4)
             THEN << (b - 240) * 262144 + (bytes[2] - 128) * 4096
                       + (bytes[3] - 128) * 64 + (bytes[4] - 128) >>
                    \o DecodeBytes(SubSeq(bytes, 5, Len(bytes)))
           ELSE <<ReplacementChar>> \o DecodeBytes(Tail(bytes))

\* new TextDecoder() has ignoreBOM false: a leading U+FEFF is not part of
\* the decoded text
StripByteOrderMark(cps) ==
  IF cps # <<>> /\ Head(cps) = ByteOrderMark THEN Tail(cps) ELSE cps

\* the UTF-16 code units of a sequence of scalar values
RECURSIVE CodeUnits(_)
CodeUnits(cps) ==
  IF cps = <<>> THEN <<>>
  ELSE (IF Head(cps) >= 65536
          THEN << 55296 + ((Head(cps) - 65536) \div 1024),
                  56320 + ((Head(cps) - 65536) % 1024) >>
          ELSE <<Head(cps)>>) \o CodeUnits(Tail(cps))

\* new TextDecoder().decode(bytes)
TextDecode(bytes) == CodeUnits(StripByteOrderMark(DecodeBytes(bytes)))

utf8ToBase64(str) == btoa(TextEncode(str))

\* Uint8Array.from(binString, m => m.charCodeAt(0)) gives the bytes back
base64ToUtf8(base64) == TextDecode(atob(base64))

\* the texts handed to the codec
TextInputs == UNION {[1..n -> CodeUnitInputs] : n \in 0..MaxTextLen}

NoCodec == [str |-> <<>>, token |-> Null, out |-> Null]

\* encodeURIComponent(utf8ToBase64(str)) (line 230)
EncodeText ==
  /\ codec.token = Null
  /\ codec' = [codec EXCEPT
                 !.token = Some(encodeURIComponent(utf8ToBase64(codec.str)))]
  /\ UNCHANGED <<pc, now, storage, hash, pendingTrips, trips, currentTrip,
                 activeDayId, newLocation, editingLocation, importData,
                 showImportModal, shareUrl, reads, last, calls>>

\* base64ToUtf8(decodeURIComponent(encoded)) (line 77)
DecodeToken ==
  /\ codec.token # Null
  /\ codec.out = Null
  /\ codec' = [codec EXCEPT
                 !.out = Some(base64ToUtf8(decodeURIComponent(codec.token[1])))]
  /\ UNCHANGED <<pc, now, storage, hash, pendingTrips, trips, currentTrip,
                 activeDayId, newLocation, editingLocation, importData,
                 showImportModal, shareUrl, reads, last, calls>>

-----------------------------------------------------------------------------

Init ==
  /\ pc = "mount"
  /\ now = StartTime
  /\ \E start \in InitialPages : storage = start.storage /\ hash = start.hash
  /\ pendingTrips = Null
  /\ trips = <<>>
  /\ currentTrip = Null
  /\ activeDayId = NullId
  /\ newLocation = EmptyDraft
  /\ editingLocation = Null
  /\ importData = Null
  /\ showImportModal = FALSE
  /\ shareUrl = Null
  /\ reads = <<>>
  /\ last = Ok("init")
  /\ calls = 0
  /\ codec = NoCodec

Next ==
  \/ LoadEffect
  \/ SaveEffect
  \/ Rerender
  \/ Reload
  \/ Tick
  \/ \E name \in TripNameInputs : createTrip(name)
  \/ \E id \in {t.id : t \in Range(trips)} \cup {NoSuchId} : deleteTrip(id)
  \/ \E t \in Range(trips) : OpenTrip(t)
  \/ CloseTrip
  \/ \E id \in DayIds(currentTrip) : SetActiveDay(id)
  \/ \E name \in DayNameInputs : addDay(name)
  \/ \E id \in DayIds(currentTrip) \cup {NoSuchId} : deleteDay(id)
  \/ \E fields \in LocationInputs : addLocation(fields)
  \/ \E dayId \in {activeDayId, NoSuchId},
        locId \in LocationIds(currentTrip) \cup {NoSuchId} :
          removeLocation(dayId, locId)
  \/ \E dayId \in {activeDayId, NoSuchId},
        index \in (-1)..(MaxLocations(currentTrip) + 1), direction \in Directions :
          moveLocation(dayId, index, direction)
  \/ \E target \in EditTargets(currentTrip) :
        openEditModal(target.location, target.dayId)
  \/ \E fields \in EditInputs : saveLocationEdit(fields)
  \/ CancelEdit
  \/ generateShareUrl
  \/ FollowShareLink
  \/ CloseShareModal
  \/ importSharedTrip
  \/ CancelImport

Spec == Init /\ [][Next]_vars

\* The image pickers of the two location forms and the completion of their
\* file reads, interleaved with the handlers that reset, open, save or cancel
\* a draft, on a page loaded without a share link.
InitImages == Init /\ hash = NoHash

NextImages ==
  \/ LoadEffect
  \/ SaveEffect
  \/ Rerender
  \/ \E t \in Range(trips) : OpenTrip(t)
  \/ handleNewImageUpload
  \/ \E i \in 1..Len(reads) : NewImageLoaded(i)
  \/ \E i \in 1..Len(newLocation.images) : removeNewImage(i)
  \/ \E fields \in LocationInputs : addLocation(fields)
  \/ \E target \in EditTargets(currentTrip) :
        openEditModal(target.location, target.dayId)
  \/ handleEditImageUpload
  \/ \E i \in 1..Len(reads) : EditImageLoaded(i)
  \/ \E i \in 1..(IF editingLocation = Null THEN 0
                    ELSE Len(editingLocation[1].location.images)) :
        removeEditImage(i)
  \/ \E fields \in EditInputs : saveLocationEdit(fields)
  \/ CancelEdit

SpecImages == InitImages /\ [][NextImages]_vars

\* the state of the component after construction, before the mount effects
Constructed ==
  /\ pc = "mount"
  /\ now = StartTime
  /\ pendingTrips = Null
  /\ trips = <<>>
  /\ currentTrip = Null
  /\ activeDayId = NullId
  /\ newLocation = EmptyDraft
  /\ editingLocation = Null
  /\ importData = Null
  /\ showImportModal = FALSE
  /\ shareUrl = Null
  /\ reads = <<>>
  /\ last = Ok("init")

\* The codec alone: a text is encoded as generateShareUrl encodes the JSON
\* text, and the token is decoded as the mount effect decodes the fragment.
InitCodec ==
  /\ Constructed
  /\ storage = Null
  /\ hash = NoHash
  /\ calls = 0
  /\ \E str \in TextInputs : codec = [NoCodec EXCEPT !.str = str]

NextCodec ==
  \/ EncodeText
  \/ DecodeToken

SpecCodec == InitCodec /\ [][NextCodec]_vars

\* the number of changes to the locations and days of one trip in a session
\* of SpecLocations
MaxLocationCalls == 3

\* One trip worked on at length: a page loaded without a share link over the
\* trip saved by an earlier session, and the handlers of its days and
\* locations.  The session may make MaxLocationCalls changes.
InitLocations ==
  /\ Constructed
  /\ storage = Some(<<StoredTrip>>)
  /\ hash = NoHash
  /\ calls = MaxCalls - MaxLocationCalls
  /\ codec = NoCodec

NextLocations ==
  \/ LoadEffect
  \/ SaveEffect
  \/ Rerender
  \/ Tick
  \/ \E t \in Range(trips) : OpenTrip(t)
  \/ \E id \in DayIds(currentTrip) : SetActiveDay(id)
  \/ \E name \in DayNameInputs : addDay(name)
  \/ \E fields \in LocationInputs : addLocation(fields)
  \/ \E dayId \in {activeDayId, NoSuchId},
        locId \in LocationIds(currentTrip) \cup {NoSuchId} :
          removeLocation(dayId, locId)
  \/ \E dayId \in {activeDayId, NoSuchId},
        index \in (-1)..(MaxLocations(currentTrip) + 1), direction \in Directions :
          moveLocation(dayId, index, direction)
  \/ \E target \in EditTargets(currentTrip) :
        openEditModal(target.location, target.dayId)
  \/ \E fields \in EditInputs : saveLocationEdit(fields)
  \/ CancelEdit

SpecLocations == InitLocations /\ [][NextLocations]_vars

\* the number of trips made or deleted in a session of SpecTrips
MaxTripCalls == 3

\* The trip list worked on at length: a page loaded without a share link
\* over two trips of the old format, trips made and deleted, a trip opened
\* from its card in the list and closed again.  The session may make
\* MaxTripCalls changes.
InitTrips ==
  /\ Constructed
  /\ storage = Some(<<LegacyTripA, LegacyTripB>>)
  /\ hash = NoHash
  /\ calls = MaxCalls - MaxTripCalls
  /\ codec = NoCodec

NextTrips ==
  \/ LoadEffect
  \/ SaveEffect
  \/ Rerender
  \/ Tick
  \/ \E name \in TripNameInputs : createTrip(name)
  \/ \E id \in {t.id : t \in Range(trips)} \cup {NoSuchId} : deleteTrip(id)
  \/ \E t \in Range(trips) : currentTrip = Null /\ OpenTrip(t)
  \/ CloseTrip

SpecTrips == InitTrips /\ [][NextTrips]_vars

\* The days of one trip worked on at length, from the same start as
\* SpecLocations: days added, selected and deleted.
NextDays ==
  \/ LoadEffect
  \/ SaveEffect
  \/ Rerender
  \/ Tick
  \/ \E t \in Range(trips) : OpenTrip(t)
  \/ \E id \in DayIds(currentTrip) : SetActiveDay(id)
  \/ \E name \in DayNameInputs : addDay(name)
  \/ \E id \in DayIds(currentTrip) \cup {NoSuchId} : deleteDay(id)

SpecDays == InitLocations /\ [][NextDays]_vars

-----------------------------------------------------------------------------
(* Properties *)

\* the trips of the collection and the open trip
AllTrips ==
  Range(trips) \cup (IF currentTrip = Null THEN {} ELSE {currentTrip[1]})

Ids(s) == [i \in 1..Len(s) |-> s[i].id]
Distinct(s) == \A i, j \in 1..Len(s) : i # j => s[i] # s[j]

\* C1: in every reachable state every trip of the collection, and the open
\* trip if any, has at least one day.
MinimumOneDay == \A t \in AllTrips : Len(DaysOf(t)) >= 1

\* C2: if a trip is open, the collection holds a trip with the same id and
\* that entry equals the open trip.
OpenTripInCollection ==
  currentTrip # Null =>
    \E i \in 1..Len(trips) :
      trips[i].id = currentTrip[1].id /\ trips[i] = currentTrip[1]

\* C2 case: two handler calls have changed an open trip that now has three
\* days, and the collection holds another trip as well
OpenTripChanged ==
  /\ pc = "ready"
  /\ calls >= 2
  /\ currentTrip # Null
  /\ Len(DaysOf(currentTrip[1])) = 3
  /\ Len(trips) >= 2

\* C3: trip ids are pairwise distinct in the collection, day ids within each
\* trip, and location ids within each day.
IdsUnique ==
  /\ Distinct(Ids(trips))
  /\ \A t \in AllTrips :
       /\ Distinct(Ids(DaysOf(t)))
       /\ \A d \in Range(DaysOf(t)) : Distinct(Ids(d.locations))

\* C4: deleteDay on an open trip with exactly one day alerts and leaves the
\* open trip, the collection and the active day unchanged.
DeleteLastDayRefused ==
  [][\A id \in DayIds(currentTrip) \cup {NoSuchId} :
       (/\ currentTrip # Null
        /\ Len(DaysOf(currentTrip[1])) = 1
        /\ deleteDay(id))
       => /\ last'.op = "deleteDay"
          /\ last'.alert = LastDayAlert
          /\ UNCHANGED <<currentTrip, trips, activeDayId>>]_vars

\* C4 case: deleteDay has just alerted on an open trip with exactly one day
LastDayKept ==
  /\ last = Ended("deleteDay", "return", LastDayAlert)
  /\ currentTrip # Null
  /\ Len(DaysOf(currentTrip[1])) = 1

\* C5: the render that follows the load effect puts only trips with a
\* non-empty days sequence in memory.
LoadedTripsHaveDays ==
  [][Rerender => \A t \in Range(trips') : DaysOf(t) # <<>>]_vars

\* the number of positions of s that hold x
Count(s, x) == Cardinality({i \in 1..Len(s) : s[i] = x})

IsPermutation(before, after) ==
  /\ Len(after) = Len(before)
  /\ \A x \in Range(before) \cup Range(after) : Count(after, x) = Count(before, x)

\* s with the elements at the 0-based positions i and j exchanged
Exchanged(s, i, j) ==
  [k \in 1..Len(s) |-> IF k - 1 = i THEN s[j + 1]
                       ELSE IF k - 1 = j THEN s[i + 1] ELSE s[k]]

\* C6: moveLocation(dayId, index, direction) leaves the day's locations a
\* permutation of what they were, changes them only by exchanging the
\* locations at index and index + direction, and leaves every other day
\* unchanged.
MoveIsAdjacentSwap ==
  [][\A dayId \in {activeDayId, NoSuchId},
        index \in (-1)..(MaxLocations(currentTrip) + 1),
        direction \in Directions :
       (currentTrip # Null /\ moveLocation(dayId, index, direction))
       => /\ currentTrip' # Null
          /\ Len(DaysOf(currentTrip'[1])) = Len(DaysOf(currentTrip[1]))
          /\ \A k \in 1..Len(DaysOf(currentTrip[1])) :
               LET before == DaysOf(currentTrip[1])[k]
                   after == DaysOf(currentTrip'[1])[k]
                   len == Len(before.locations)
               IN  IF before.id = dayId
                     THEN /\ IsPermutation(before.locations, after.locations)
                          /\ after.locations # before.locations =>
                               /\ index \in 0..(len - 1)
                               /\ index + direction \in 0..(len - 1)
                               /\ after.locations =
                                    Exchanged(before.locations, index,
                                              index + direction)
                     ELSE after = before]_vars

IsEditImage(image) == image # <<>> /\ image[1] = "edit:"

\* the images of a location are those picked in the add-location form or in
\* the edit form of that location
OwnImages(location) ==
  \A image \in Range(location.images) :
    IsEditImage(image) => image = EditImage(location.id)

\* C7: an image read for the edit draft of a location is attached to that
\* location only, and never to the add-location draft.
ImagesStayWithTheirDraft ==
  /\ \A image \in Range(newLocation.images) : ~IsEditImage(image)
  /\ editingLocation # Null => OwnImages(editingLocation[1].location)
  /\ \A t \in AllTrips : \A d \in Range(DaysOf(t)) :
       \A l \in Range(d.locations) : l # Hole => OwnImages(l)

\* texts that are empty after trimming
BlankTexts == {<<>>, <<" ">>}

\* C8: createTrip with a blank trip name, addDay with a blank day name and
\* addLocation with a blank name or a blank address leave the collection,
\* the open trip and the active day unchanged.
BlankFieldChangesNothing ==
  [][(\/ \E name \in BlankTexts : createTrip(name)
      \/ \E name \in BlankTexts : addDay(name)
      \/ \E fields \in LocationInputs :
           /\ fields.name \in BlankTexts \/ fields.address \in BlankTexts
           /\ addLocation(fields))
     => UNCHANGED <<trips, currentTrip, activeDayId>>]_vars

\* C8 case: addLocation has just returned on an open trip with an active day,
\* which only a blank name or address makes it do
BlankLocationRejected ==
  /\ last = Returned("addLocation")
  /\ currentTrip # Null
  /\ activeDayId # NullId

EqualNotes(notes, copied) == copied = notes
\* a location stored without notes is imported with empty notes
NormalisedNotes(notes, copied) ==
  copied = (IF notes = Undefined THEN <<>> ELSE notes)

\* copy has the name of original plus the shared suffix, the days of
\* original in their order with their names, and in each day the locations
\* of original in their order with their name and address, no images, and
\* the notes of original: exactly, or with empty notes where original has none
IsSharedCopy(original, copy, exact) ==
  /\ copy.name = original.name \o SharedSuffix
  /\ Len(DaysOf(copy)) = Len(DaysOf(original))
  /\ \A i \in 1..Len(DaysOf(original)) :
       LET day == DaysOf(original)[i]
           copied == DaysOf(copy)[i]
       IN  /\ copied.name = day.name
           /\ Len(copied.locations) = Len(day.locations)
           /\ \A j \in 1..Len(day.locations) :
                /\ copied.locations[j].name = day.locations[j].name
                /\ copied.locations[j].address = day.locations[j].address
                /\ IF exact
                     THEN EqualNotes(day.locations[j].notes,
                                     copied.locations[j].notes)
                     ELSE NormalisedNotes(day.locations[j].notes,
                                          copied.locations[j].notes)
                /\ copied.locations[j].images = <<>>

\* importSharedTrip runs on the payload generateShareUrl builds for trip
ImportsShareOf(trip) ==
  /\ importData = Some(ShareData(trip))
  /\ importSharedTrip

\* C9 (as stated): importing the share payload of a trip opens a copy with
\* equal name, address and notes in every location.
RoundTripKeepsNotes ==
  [][\A t \in Range(trips) :
       ImportsShareOf(t) => IsSharedCopy(t, currentTrip'[1], TRUE)]_vars

\* C9 (amended): importing the share payload of a trip opens a copy with
\* equal name and address in every location and equal notes, except that a
\* location without notes gets empty notes.
RoundTripNormalisesNotes ==
  [][\A t \in Range(trips) :
       ImportsShareOf(t) =>
         IsSharedCopy(t, currentTrip'[1], FALSE)]_vars

\* C9 case: the collection holds a trip with an image and notes, and the
\* copy that importing its share link made
SharedCopyImported ==
  /\ pc = "ready"
  /\ \E i, j \in 1..Len(trips) :
       /\ trips[j].id # trips[i].id
       /\ IsSharedCopy(trips[i], trips[j], FALSE)
       /\ \E d \in Range(DaysOf(trips[i])) : \E l \in Range(d.locations) :
            l.images # <<>>
       /\ \E d \in Range(DaysOf(trips[i])) : \E l \in Range(d.locations) :
            l.notes \notin {Undefined, <<>>}

\* data lacks a name, a days array, or the locations array of some day
InvalidTripData(data) ==
  \/ ~Truthy(data.name)
  \/ data.days.kind # "array"
  \/ \E d \in Range(data.days.items) : d.locations.kind # "array"

\* C10: importSharedTrip on data without a name, a days array or the
\* locations array of a day alerts 'invalid trip data', adds no trip and
\* leaves the collection, the open trip and the active day unchanged.
InvalidImportRejected ==
  [][(/\ importData # Null
      /\ InvalidTripData(importData[1])
      /\ importSharedTrip)
     => /\ last' = Ended("importSharedTrip", "catch", InvalidTripAlert)
        /\ UNCHANGED <<trips, currentTrip, activeDayId, storage>>]_vars

\* C10 case: importSharedTrip has just alerted on invalid data
InvalidImportAlerted ==
  /\ last = Ended("importSharedTrip", "catch", InvalidTripAlert)
  /\ importData # Null
  /\ InvalidTripData(importData[1])

\* a text without lone surrogates: every high surrogate is followed by a low
\* one and every low surrogate follows a high one
WellFormed(str) ==
  \A k \in 1..Len(str) :
    /\ IsHighSurrogate(str[k]) => (k < Len(str) /\ IsLowSurrogate(str[k + 1]))
    /\ IsLowSurrogate(str[k]) => (k > 1 /\ IsHighSurrogate(str[k - 1]))

\* C11: base64ToUtf8(utf8ToBase64(s)) = s for every well-formed Unicode
\* text s, multi-byte characters and characters outside the basic plane
\* included, when the token travels percent-encoded as in the share URL.
CodecRoundTrip ==
  (codec.out # Null /\ WellFormed(codec.str)) => codec.out[1] = codec.str

\* the same trip under other ids, another creation time and other images
Relabel(trip) ==
  [trip EXCEPT
     !.id = @ \o <<"x">>,
     !.createdAt = @ + 1,
     !.days = JArr([i \in 1..Len(DaysOf(trip)) |->
                [DaysOf(trip)[i] EXCEPT
                   !.id = @ \o <<"x">>,
                   !.locations = [j \in 1..Len(DaysOf(trip)[i].locations) |->
                      [DaysOf(trip)[i].locations[j] EXCEPT
                         !.id = @ \o <<"x">>,
                         !.images = @ \o <<NewImage>>]]]])]

\* equal trip name, day names in order and location name, address and notes
\* in order
SameTexts(a, b) ==
  /\ a.name = b.name
  /\ Len(DaysOf(a)) = Len(DaysOf(b))
  /\ \A i \in 1..Len(DaysOf(a)) :
       /\ DaysOf(a)[i].name = DaysOf(b)[i].name
       /\ Len(DaysOf(a)[i].locations) = Len(DaysOf(b)[i].locations)
       /\ \A j \in 1..Len(DaysOf(a)[i].locations) :
            /\ DaysOf(a)[i].locations[j].name = DaysOf(b)[i].locations[j].name
            /\ DaysOf(a)[i].locations[j].address
                 = DaysOf(b)[i].locations[j].address
            /\ DaysOf(a)[i].locations[j].notes = DaysOf(b)[i].locations[j].notes

\* the payload holds a name and days, every day a name and locations, every
\* location a name, an address and notes, and nothing else
TextsOnly(data) ==
  /\ DOMAIN data = {"name", "days"}
  /\ \A d \in Range(data.days.items) :
       /\ DOMAIN d = {"name", "locations"}
       /\ \A l \in Range(d.locations.items) :
            DOMAIN l = {"name", "address", "notes"}

\* C12: the share URL generateShareUrl produces for the open trip is the URL
\* of every trip with the same names, addresses and notes, whatever its ids,
\* creation time and images (a relabelled copy of the open trip, and every
\* such trip of the collection), and its payload holds no id and no images.
ShareUrlFromTextsOnly ==
  [][(generateShareUrl /\ shareUrl' # shareUrl)
     => /\ \A t \in Range(trips) \cup {Relabel(currentTrip[1])} :
             SameTexts(t, currentTrip[1])
               => shareUrl'[1] = ShareFragment(ShareData(t))
        /\ SameTexts(Relabel(currentTrip[1]), currentTrip[1])
        /\ TextsOnly(shareUrl'[1].data)]_vars

\* C12 case: a share URL was produced for an open trip that holds an image,
\* and a trip with other ids and images gives the same URL
SharedWithoutIdsAndImages ==
  /\ shareUrl # Null
  /\ currentTrip # Null
  /\ \E d \in Range(DaysOf(currentTrip[1])) : \E l \in Range(d.locations) :
       l.images # <<>>
  /\ Relabel(currentTrip[1]) # currentTrip[1]
  /\ shareUrl[1] = ShareFragment(ShareData(Relabel(currentTrip[1])))

\* the positions in a location sequence of the locations with the given id
Positions(locations, locId) ==
  {k \in 1..Len(locations) : locations[k].id = locId}

\* after is before without exactly one location, one whose id is locId; or
\* after is before when before holds no such location
RemovedOne(before, after, locId) ==
  IF Positions(before, locId) = {}
    THEN after = before
    ELSE \E k \in Positions(before, locId) : after = RemoveAt(before, k)

\* C13: removeLocation(dayId, locId) on an open trip removes from the day
\* named dayId exactly the location whose id is locId, keeps the other
\* locations in their order and every other day as it was, changes nothing
\* when the day holds no such location, and leaves no location a second
\* call would remove.
RemovesExactlyThatLocation ==
  [][\A dayId \in {activeDayId, NoSuchId},
        locId \in LocationIds(currentTrip) \cup {NoSuchId} :
       (currentTrip # Null /\ removeLocation(dayId, locId))
         => LET before == DaysOf(currentTrip[1])
                after == DaysOf(currentTrip'[1])
            IN  /\ Len(after) = Len(before)
                /\ \A i \in 1..Len(before) :
                     IF before[i].id = dayId
                       THEN /\ after[i].id = before[i].id
                            /\ after[i].name = before[i].name
                            /\ RemovedOne(before[i].locations,
                                          after[i].locations, locId)
                            /\ Positions(after[i].locations, locId) = {}
                       ELSE after[i] = before[i]]_vars

\* after is before with exactly one location, one whose id is that of the
\* edited location, replaced by it; or after is before when before holds no
\* such location
ReplacedOne(before, after, edited) ==
  IF Positions(before, edited.id) = {}
    THEN after = before
    ELSE \E k \in Positions(before, edited.id) :
           after = [before EXCEPT ![k] = edited]

\* C14: saveLocationEdit on an open trip replaces, in the day the edit was
\* opened for, exactly the location with the edited location's id by the
\* edited value (the form's name, address and notes, the draft's images) at
\* the same position, keeps every other location and every other day, and
\* changes no day when that day holds no location with that id.
EditReplacesExactlyThatLocation ==
  [][\A fields \in EditInputs :
       (currentTrip # Null /\ editingLocation # Null /\ saveLocationEdit(fields))
         => LET before == DaysOf(currentTrip[1])
                after == DaysOf(currentTrip'[1])
                edited == Edited(editingLocation[1].location, fields)
            IN  /\ Len(after) = Len(before)
                /\ \A i \in 1..Len(before) :
                     IF before[i].id = editingLocation[1].dayId
                       THEN /\ after[i].id = before[i].id
                            /\ after[i].name = before[i].name
                            /\ ReplacedOne(before[i].locations,
                                           after[i].locations, edited)
                       ELSE after[i] = before[i]]_vars

\* C15: the load effect turns every stored trip without days into a trip
\* with the same id, name and createdAt and exactly one day, named 'Day 1',
\* holding the stored locations (none when the trip has no locations), and
\* hands on unchanged every stored trip that has days.
MigrationResult ==
  [][(LoadEffect /\ storage # Null)
     => /\ pendingTrips' # Null
        /\ Len(pendingTrips'[1]) = Len(storage[1])
        /\ \A i \in 1..Len(storage[1]) :
             LET stored == storage[1][i]
                 migrated == pendingTrips'[1][i]
             IN  IF stored.days.kind = "absent"
                   THEN /\ migrated.id = stored.id
                        /\ migrated.name = stored.name
                        /\ migrated.createdAt = stored.createdAt
                        /\ migrated.days.kind = "array"
                        /\ Len(DaysOf(migrated)) = 1
                        /\ DaysOf(migrated)[1].name = Day1
                        /\ DaysOf(migrated)[1].locations =
                             (IF stored.locations.kind = "absent"
                                THEN <<>> ELSE stored.locations.items)
                   ELSE migrated = stored]_vars

\* C15 case: the load effect has migrated an old trip with one location and
\* an old trip without locations
OldTripsMigrated ==
  /\ pc = "loaded"
  /\ storage = Some(<<LegacyTripA, LegacyTripB>>)
  /\ pendingTrips # Null
  /\ DaysOf(pendingTrips[1][1])[1].locations = <<LegacyLocation>>
  /\ DaysOf(pendingTrips[1][2])[1].locations = <<>>

\* the clock values of the model
Times == StartTime..(StartTime + MaxTicks + 1)

\* C16: what the load effect's migration returns is a fixed point of the
\* migration at any later time, for old trips and for trips with days, the
\* id of a day made by the migration included.
MigrationIdempotent ==
  [][(LoadEffect /\ storage # Null)
     => \A ts \in Times : Migrate(pendingTrips'[1], ts) = pendingTrips'[1]]_vars

\* C16 case: a trip migrated by an earlier page load, kept in storage with
\* the day id made then, has gone through the migration again at a later
\* time
MigratedTripLoadedAgain ==
  /\ pc = "loaded"
  /\ now > StartTime
  /\ pendingTrips # Null
  /\ \E i \in 1..Len(pendingTrips[1]) :
       /\ pendingTrips[1][i].locations.kind = "array"
       /\ pendingTrips[1][i].days.kind = "array"
       /\ DaysOf(pendingTrips[1][i])[1].id = NumToString(StartTime)
       /\ storage[1][i] = pendingTrips[1][i]

\* C17: moveLocation at index 0 with direction -1, and at the last index of
\* the day with direction +1, leaves the day's locations, the open trip, the
\* trip collection and what is stored unchanged.
MoveAtBoundaryChangesNothing ==
  [][\A dayId \in {activeDayId, NoSuchId} :
       (\/ moveLocation(dayId, 0, -1)
        \/ /\ currentTrip # Null
           /\ FindDay(DaysOf(currentTrip[1]), dayId) # Null
           /\ moveLocation(dayId,
                Len(FindDay(DaysOf(currentTrip[1]), dayId)[1].locations) - 1, 1))
         => UNCHANGED <<trips, currentTrip, activeDayId, storage>>]_vars

\* C17 case: moveLocation has returned at a boundary of a day of the open
\* trip that holds two locations
MoveRefusedAtBoundary ==
  /\ last = Returned("moveLocation")
  /\ currentTrip # Null
  /\ FindDay(DaysOf(currentTrip[1]), activeDayId) # Null
  /\ Len(FindDay(DaysOf(currentTrip[1]), activeDayId)[1].locations) = 2
  /\ ~HasHole(FindDay(DaysOf(currentTrip[1]), activeDayId)[1].locations)

\* location is a location made from the form's texts and the draft's images
CarriesDraft(location, fields, images) ==
  /\ location.name = fields.name
  /\ location.address = fields.address
  /\ location.notes = fields.notes
  /\ location.images = images

\* C18: addLocation with a name and an address that are not blank, on an
\* open trip with an active day, appends one location carrying the form's
\* name, address and notes and the draft's images at the end of the active
\* day, keeps the locations that day had in their order, and leaves every
\* other day of the trip and every other trip of the collection unchanged.
AddAppendsOneLocation ==
  [][\A fields \in LocationInputs :
       (/\ fields.name \notin BlankTexts
        /\ fields.address \notin BlankTexts
        /\ currentTrip # Null
        /\ activeDayId # NullId
        /\ addLocation(fields))
         => LET before == DaysOf(currentTrip[1])
                after == DaysOf(currentTrip'[1])
            IN  /\ Len(after) = Len(before)
                /\ \E i \in 1..Len(before) :
                     /\ before[i].id = activeDayId
                     /\ after[i].id = before[i].id
                     /\ after[i].name = before[i].name
                     /\ Len(after[i].locations) = Len(before[i].locations) + 1
                     /\ SubSeq(after[i].locations, 1, Len(before[i].locations))
                          = before[i].locations
                     /\ CarriesDraft(after[i].locations[Len(after[i].locations)],
                                     fields, newLocation.images)
                     /\ \A j \in 1..Len(before) : j # i => after[j] = before[j]
                /\ Len(trips') = Len(trips)
                /\ \A k \in 1..Len(trips) :
                     trips[k].id # currentTrip[1].id => trips'[k] = trips[k]]_vars

\* a fragment that is no share link, does not decode, or decodes to a value
\* lacking a name or days
NotAShareLink(h) ==
  \/ h.tag # "share"
  \/ ~Truthy(h.data.name)
  \/ h.data.days.kind = "absent"

CreateAddsOneOpenTrip ==
  [][\A name \in TripNameInputs \ BlankTexts :
       createTrip(name)
         => /\ Len(trips') = Len(trips) + 1
            /\ SubSeq(trips', 1, Len(trips)) = trips
            /\ LET new == trips'[Len(trips')]
               IN  /\ new.name = name
                   /\ new.days.kind = "array"
                   /\ Len(DaysOf(new)) = 1
                   /\ DaysOf(new)[1].name = Day1
                   /\ DaysOf(new)[1].locations = <<>>
                   /\ currentTrip' = Some(new)
                   /\ activeDayId' = DaysOf(new)[1].id
            /\ pc' = "ready"]_vars

\* C20 case: a trip made in this session was added after a stored trip and
\* is open on its only day
TripCreatedAndOpen ==
  /\ pc = "ready"
  /\ calls = 1
  /\ Len(trips) = 2
  /\ currentTrip = Some(trips[2])
  /\ currentTrip[1].name \in TripNameInputs \ BlankTexts
  /\ currentTrip[1].createdAt >= StartTime
  /\ Len(DaysOf(currentTrip[1])) = 1
  /\ DaysOf(currentTrip[1])[1].locations = <<>>
  /\ activeDayId = DaysOf(currentTrip[1])[1].id

\* C21: deleteTrip(id) removes from the collection exactly the trip with
\* that id, keeps every other trip as it was and in the same order, changes
\* nothing in the collection when no trip has that id, and clears the open
\* trip and the active day when the open trip was the one deleted.
DeleteRemovesExactlyThatTrip ==
  [][\A id \in {t.id : t \in Range(trips)} \cup {NoSuchId} :
       deleteTrip(id)
         => /\ RemovedOne(trips, trips', id)
            /\ (currentTrip # Null /\ currentTrip[1].id = id)
                 => (currentTrip' = Null /\ activeDayId' = NullId)]_vars

\* C22: deleteDay(dayId) on an open trip with more than one day removes
\* exactly the day with that id and keeps the other days, their order and
\* their locations; the active day becomes the first remaining day when it
\* was the day removed and stays as it was otherwise, and is a day of the
\* open trip afterwards.
DeleteRemovesExactlyThatDay ==
  [][\A dayId \in DayIds(currentTrip) \cup {NoSuchId} :
       (/\ currentTrip # Null
        /\ Len(DaysOf(currentTrip[1])) > 1
        /\ deleteDay(dayId))
         => LET before == DaysOf(currentTrip[1])
                after == DaysOf(currentTrip'[1])
            IN  /\ RemovedOne(before, after, dayId)
                /\ activeDayId = dayId
                     => (after # <<>> /\ activeDayId' = after[1].id)
                /\ activeDayId # dayId => activeDayId' = activeDayId
                /\ activeDayId' \in DayIds(currentTrip')]_vars

\* C23: every trip name, day name, location name and location address held
\* in the collection is non-empty after trimming.
RequiredFieldsNonEmpty ==
  \A t \in Range(trips) :
    /\ Trim(t.name) # <<>>
    /\ \A d \in Range(DaysOf(t)) :
         /\ Trim(d.name) # <<>>
         /\ \A l \in Range(d.locations) :
              Trim(l.name) # <<>> /\ Trim(l.address) # <<>>

\* the ids of the trips held in storage
StoredIds(stored) ==
  IF stored = Null THEN {} ELSE {t.id : t \in Range(stored[1])}

\* C24: no write to storage removes a saved trip, unless the write is that
\* of deleteTrip called with the trip's id.
NoSavedTripLost ==
  [][\A id \in StoredIds(storage) \ StoredIds(storage') : deleteTrip(id)]_vars

====
